---- MODULE Spec2Model ----
\* Model of the PyFiglet HTTP API (src/main.py): the three route handlers
\* generate_ascii, list_fonts and random_art, and the helper justify_text.
\* A Python str is a sequence of one-character strings; the request text and
\* the font names are opaque strings. The third-party renderer
\* pyfiglet.figlet_format is an environment step: it returns any block of the
\* bounded alphabet or raises.
EXTENDS Integers, Sequences, FiniteSets

VARIABLES catalog, pc, request, response, trace,
          jpc, jtext, jwidth, jalign, jout, jout2

vars == <<catalog, pc, request, response, trace, jpc, jtext, jwidth, jalign, jout, jout2>>
httpvars == <<catalog, pc, request, response, trace>>
jvars == <<jpc, jtext, jwidth, jalign, jout, jout2>>

-----------------------------------------------------------------------------
\* Bounds of the model.

\* longest block figlet_format returns in the handler model
MaxArtLen == 3
\* longest text given to justify_text in the pure-function specification
MaxTextLen == 4
\* largest small width tried (the default width 80 is tried as well)
MaxWidth == 4
\* largest number of fonts in the catalog
MaxFonts == 2

\* FigletRequest.width default
DefaultWidth == 80

NL == "\n"
SP == " "
Chars == {"#", SP, NL}
ArtChars == {"#", NL}

StringsOver(alphabet, n) == UNION {[1..k -> alphabet] : k \in 0..n}

Range(s) == {s[i] : i \in DOMAIN s}

\* Optional[int]: None is <<>>, the integer n is <<n>>
None == <<>>
Some(n) == <<n>>

-----------------------------------------------------------------------------
\* Python str primitives used by justify_text.

Spaces(n) == [i \in 1..n |-> SP]

\* str.split(sep) for a one-character separator: k separators give k+1 pieces
RECURSIVE split(_, _)
split(s, sep) ==
    IF \A i \in DOMAIN s : s[i] # sep
    THEN <<s>>
    ELSE LET p == CHOOSE i \in DOMAIN s : s[i] = sep /\ \A j \in 1..(i-1) : s[j] # sep
         IN  <<SubSeq(s, 1, p - 1)>> \o split(SubSeq(s, p + 1, Len(s)), sep)

\* sep.join(parts)
RECURSIVE join(_, _)
join(sep, parts) ==
    IF parts = <<>> THEN <<>>
    ELSE IF Len(parts) = 1 THEN parts[1]
    ELSE parts[1] \o <<sep>> \o join(sep, Tail(parts))

\* a mutant of str_center: the odd cell always goes to the right
str_center_right_biased(line, width) ==
    IF Len(line) >= width THEN line
    ELSE LET marg == width - Len(line)
             left == marg \div 2
         IN  Spaces(left) \o line \o Spaces(marg - left)

\* str.center(width): CPython pads left with marg/2 + (marg & width & 1)
str_center(line, width) ==
    IF Len(line) >= width THEN line
    ELSE LET marg == width - Len(line)
             left == (marg \div 2) + (IF marg % 2 = 1 /\ width % 2 = 1 THEN 1 ELSE 0)
         IN  Spaces(left) \o line \o Spaces(marg - left)

\* str.rjust(width)
str_rjust(line, width) ==
    IF Len(line) >= width THEN line
    ELSE Spaces(width - Len(line)) \o line

\* a mutant of str_ljust: the row is cut to width before padding
str_ljust_truncating(line, width) ==
    IF Len(line) >= width THEN SubSeq(line, 1, IF width < 0 THEN 0 ELSE width)
    ELSE line \o Spaces(width - Len(line))

\* str.ljust(width)
str_ljust(line, width) ==
    IF Len(line) >= width THEN line
    ELSE line \o Spaces(width - Len(line))

\* one iteration of the loop of justify_text
justify_line(line, width, alignment) ==
    IF alignment = "center" THEN str_center(line, width)
    ELSE IF alignment = "right" THEN str_rjust(line, width)
    ELSE str_ljust(line, width)

\* a mutant of justify_text: every row is terminated by a newline
justify_text_trailing_newline(text, width, alignment) ==
    LET lines == split(text, NL)
        justified == [i \in DOMAIN lines |-> justify_line(lines[i], width, alignment)]
    IN  join(NL, justified) \o <<NL>>

justify_text(text, width, alignment) ==
    LET lines == split(text, NL)
        justified == [i \in DOMAIN lines |-> justify_line(lines[i], width, alignment)]
    IN  join(NL, justified)

-----------------------------------------------------------------------------
\* The HTTP layer.

FontNames == {"standard", "banner", "slant"}
UnknownFont == "nosuch"
Texts == {"", "HI"}
Alignments == {"left", "center", "right", "middle"}
Widths == {None, Some(DefaultWidth)} \cup {Some(w) : w \in (-1)..MaxWidth}

\* FigletFont.getFonts(): a list of distinct font names
Catalogs ==
    {c \in StringsOver(FontNames, MaxFonts) : \A i, j \in DOMAIN c : c[i] = c[j] => i = j}

\* FigletRequest(**body): wellformed is FALSE when pydantic rejects the body
\* (text missing, a field of the wrong type)
FigletRequest ==
    [wellformed : {TRUE}, text : Texts, font : FontNames \cup {UnknownFont},
     width : Widths, justify : Alignments]
    \cup {[wellformed |-> FALSE, text |-> "", font |-> "standard",
           width |-> Some(DefaultWidth), justify |-> "center"]}

NoBody ==
    [wellformed |-> TRUE, text |-> "", font |-> "standard",
     width |-> Some(DefaultWidth), justify |-> "center"]

NoRequest == [op |-> "none", body |-> NoBody]

NoResponse ==
    [status |-> 0, kind |-> "none", ascii_art |-> <<>>, font_used |-> "",
     line_count |-> 0, fonts |-> <<>>, count |-> 0]

NoTrace ==
    [raised |-> "", render_called |-> FALSE, justify_called |-> FALSE,
     render_font |-> "", raw_art |-> <<>>]

\* the outcomes of pyfiglet.figlet_format: with no character to compose it
\* returns the empty string, otherwise some block; loading the font may raise
figlet_format(text) ==
    {[raises |-> TRUE, art |-> <<>>]}
    \cup {[raises |-> FALSE, art |-> a] :
            a \in IF text = "" THEN {<<>>} ELSE StringsOver(ArtChars, MaxArtLen)}

sample_texts == <<"Hello World", "ASCII Rocks", "PyFiglet", "Nexios", "Make Art">>

\* a mutant of FontAvailable: the font is never checked
FontAvailable_unchecked(font, available_fonts) == TRUE

\* req.font not in available_fonts, negated
FontAvailable(font, available_fonts) == font \in Range(available_fonts)

\* a mutant of LineCount: ascii_art.count('\n'), the newlines and not the rows
LineCount_newlines(ascii_art) ==
    Cardinality({i \in DOMAIN ascii_art : ascii_art[i] = NL})

\* len(ascii_art.split('\n'))
LineCount(ascii_art) == Len(split(ascii_art, NL))

\* raise HTTPException(status_code=500, detail=str(e)) of the except clause,
\* which catches every Exception raised in the try block, the HTTPException
\* of the font check included
ExceptClause(exc, t) ==
    [resp |-> [NoResponse EXCEPT !.status = 500, !.kind = "error"],
     trace |-> [t EXCEPT !.raised = exc]]

\* the handler of POST /figlet/generate, given the outcome fig of figlet_format
generate_ascii(body, available_fonts, fig) ==
    IF ~body.wellformed
    THEN ExceptClause("ValidationError", NoTrace)
    ELSE IF ~FontAvailable(body.font, available_fonts)
    THEN ExceptClause("HTTPException400", NoTrace)
    ELSE LET t1 == [NoTrace EXCEPT !.render_called = TRUE, !.render_font = body.font]
         IN  IF fig.raises
             THEN ExceptClause("FigletError", t1)
             ELSE LET t2 == [t1 EXCEPT !.justify_called = TRUE, !.raw_art = fig.art]
                  IN  IF body.width = None
                      THEN ExceptClause("TypeError", t2)
                      ELSE LET ascii_art == justify_text(fig.art, body.width[1], body.justify)
                           IN  [resp |-> [NoResponse EXCEPT
                                            !.status = 200, !.kind = "art",
                                            !.ascii_art = ascii_art,
                                            !.font_used = body.font,
                                            !.line_count = LineCount(ascii_art)],
                                trace |-> t2]

\* a mutant of list_fonts_body: the count is the index of the last font
list_fonts_body_last_index(fonts) ==
    [NoResponse EXCEPT !.status = 200, !.kind = "fonts", !.fonts = fonts,
                       !.count = IF fonts = <<>> THEN 0 ELSE Len(fonts) - 1]

\* the body of the response of GET /figlet/fonts
list_fonts_body(fonts) ==
    [NoResponse EXCEPT !.status = 200, !.kind = "fonts", !.fonts = fonts,
                       !.count = Len(fonts)]

-----------------------------------------------------------------------------
\* Actions.

\* a client sends a request to one of the three routes
Send ==
    /\ pc = "idle"
    /\ \E op \in {"generate", "fonts", "random"} :
       \E body \in (IF op = "generate" THEN FigletRequest ELSE {NoBody}) :
          request' = [op |-> op, body |-> body]
    /\ pc' = "pending"
    /\ UNCHANGED <<catalog, response, trace>>
    /\ UNCHANGED jvars

GenerateAscii ==
    /\ pc = "pending"
    /\ request.op = "generate"
    /\ \E fig \in figlet_format(request.body.text) :
          LET r == generate_ascii(request.body, catalog, fig)
          IN  /\ response' = r.resp
              /\ trace' = r.trace
    /\ pc' = "responded"
    /\ UNCHANGED <<catalog, request>>
    /\ UNCHANGED jvars

ListFonts ==
    /\ pc = "pending"
    /\ request.op = "fonts"
    /\ LET fonts == catalog
       IN  response' = list_fonts_body(fonts)
    /\ trace' = NoTrace
    /\ pc' = "responded"
    /\ UNCHANGED <<catalog, request>>
    /\ UNCHANGED jvars

\* random.choice raises IndexError on an empty list; nothing catches it here and
\* the framework answers 500
RandomArt ==
    /\ pc = "pending"
    /\ request.op = "random"
    /\ LET fonts == catalog
       IN  IF fonts = <<>>
           THEN /\ response' = [NoResponse EXCEPT !.status = 500, !.kind = "error"]
                /\ trace' = [NoTrace EXCEPT !.raised = "IndexError"]
           ELSE \E text \in Range(sample_texts), font \in Range(fonts), used \in Range(fonts) :
                \E fig \in figlet_format(text) :
                   LET t1 == [NoTrace EXCEPT !.render_called = TRUE, !.render_font = font]
                   IN  IF fig.raises
                       THEN /\ response' = [NoResponse EXCEPT !.status = 500, !.kind = "error"]
                            /\ trace' = [t1 EXCEPT !.raised = "FigletError"]
                       ELSE /\ response' = [NoResponse EXCEPT
                                              !.status = 200, !.kind = "art",
                                              !.ascii_art = fig.art,
                                              !.font_used = used]
                            /\ trace' = [t1 EXCEPT !.raw_art = fig.art]
    /\ pc' = "responded"
    /\ UNCHANGED <<catalog, request>>
    /\ UNCHANGED jvars

\* the response reaches the client; the server keeps nothing of the request
Deliver ==
    /\ pc = "responded"
    /\ pc' = "idle"
    /\ request' = NoRequest
    /\ response' = NoResponse
    /\ trace' = NoTrace
    /\ UNCHANGED catalog
    /\ UNCHANGED jvars

JIdle ==
    /\ jpc = "off" /\ jtext = <<>> /\ jwidth = 0 /\ jalign = "left"
    /\ jout = <<>> /\ jout2 = <<>>

Init ==
    /\ catalog \in Catalogs
    /\ pc = "idle"
    /\ request = NoRequest
    /\ response = NoResponse
    /\ trace = NoTrace
    /\ JIdle

Next == Send \/ GenerateAscii \/ ListFonts \/ RandomArt \/ Deliver

Spec == Init /\ [][Next]_vars

-----------------------------------------------------------------------------
\* justify_text as a pure function: the inputs are drawn in the initial state,
\* the function is applied once and then again to its own result.

JWidths == (-1)..MaxWidth

InitJustify ==
    /\ catalog = <<>>
    /\ pc = "idle"
    /\ request = NoRequest
    /\ response = NoResponse
    /\ trace = NoTrace
    /\ jpc = "input"
    /\ jtext \in StringsOver(Chars, MaxTextLen)
    /\ jwidth \in JWidths
    /\ jalign \in Alignments
    /\ jout = <<>>
    /\ jout2 = <<>>

JustifyOnce ==
    /\ jpc = "input"
    /\ jout' = justify_text(jtext, jwidth, jalign)
    /\ jpc' = "once"
    /\ UNCHANGED <<jtext, jwidth, jalign, jout2>>
    /\ UNCHANGED httpvars

JustifyTwice ==
    /\ jpc = "once"
    /\ jout2' = justify_text(jout, jwidth, jalign)
    /\ jpc' = "twice"
    /\ UNCHANGED <<jtext, jwidth, jalign, jout>>
    /\ UNCHANGED httpvars

NextJustify == JustifyOnce \/ JustifyTwice

SpecJustify == InitJustify /\ [][NextJustify]_vars

-----------------------------------------------------------------------------
\* Reading a block of text row by row, by the positions of its newlines.

Modes == {"left", "center", "right"}

NewlineAt(s) == {i \in DOMAIN s : s[i] = NL}

RowCount(s) == Cardinality(NewlineAt(s)) + 1

\* the k-th row of s, k in 1..RowCount(s)
RowAt(s, k) ==
    LET starts == {0} \cup NewlineAt(s)
        b == CHOOSE x \in starts : Cardinality({y \in starts : y < x}) = k - 1
        ends == {i \in NewlineAt(s) : i > b} \cup {Len(s) + 1}
        e == CHOOSE x \in ends : \A y \in ends : x <= y
    IN  SubSeq(s, b + 1, e - 1)

Responded(op) == pc = "responded" /\ request.op = op

\* a request the specification calls valid
ValidRequest ==
    /\ request.body.wellformed
    /\ request.body.text # ""
    /\ request.body.font \in Range(catalog)
    /\ request.body.width # None
    /\ request.body.width[1] >= 1
    /\ request.body.justify \in Modes

\* the row out is the row in padded with l spaces on the left to the width w
PaddedBy(out, in, l, w) ==
    out = Spaces(l) \o in \o Spaces(w - Len(in) - l)

-----------------------------------------------------------------------------
\* Claims.

\* C1: a generate request whose font is not among the available fonts is
\* answered with a 400-class status, whatever text, width and justify are.
C1_MissingFontIsClientError ==
    (Responded("generate") /\ request.body.wellformed
        /\ request.body.font \notin Range(catalog))
    => response.status \in 400..499

\* C2: a generate request whose font is not among the available fonts fails
\* with the font-not-found error; figlet_format and justify_text are never
\* reached and no response carrying ascii_art is produced.
C2_UnknownFontNeverRendered ==
    (Responded("generate") /\ request.body.wellformed
        /\ request.body.font \notin Range(catalog))
    => /\ trace.raised = "HTTPException400"
       /\ ~trace.render_called
       /\ ~trace.justify_called
       /\ response.kind # "art"
       /\ response.status # 200
       /\ response.ascii_art = <<>>

C2_Witness ==
    /\ Responded("generate")
    /\ request.body.wellformed
    /\ request.body.text = "HI"
    /\ request.body.font = UnknownFont
    /\ Len(catalog) = 2
    /\ trace.raised = "HTTPException400"

\* C3: in every response of list_fonts, for every catalog, the empty one
\* included, count is the length of fonts, and fonts is the catalog.
C3_CountIsLengthOfFonts ==
    Responded("fonts")
    => /\ response.status = 200
       /\ response.fonts = catalog
       /\ response.count = Len(response.fonts)

C3_Witness ==
    /\ Responded("fonts")
    /\ Len(response.fonts) = 2
    /\ response.count = 2

\* C4: a successful response to a valid generate request carries at least one
\* row, and metadata.line_count is the number of rows of the returned
\* (justified) ascii_art.
C4_LineCountIsRowsReturned ==
    (Responded("generate") /\ ValidRequest /\ response.status = 200)
    => /\ response.line_count >= 1
       /\ response.line_count = RowCount(response.ascii_art)

C4_Witness ==
    /\ Responded("generate")
    /\ ValidRequest
    /\ response.status = 200
    /\ response.line_count = 3
    /\ response.ascii_art # trace.raw_art

\* C5: the generate request with text "", font "standard", width 80 and
\* justify "center" fails: it is not answered with a success response.
C5_EmptyTextIsRejected ==
    (Responded("generate") /\ request.body.wellformed
        /\ request.body.text = ""
        /\ request.body.font = "standard" /\ "standard" \in Range(catalog)
        /\ request.body.width = Some(DefaultWidth)
        /\ request.body.justify = "center")
    => response.status # 200

\* C6: a generate request whose justify value is not left, center or right
\* (and that is valid otherwise) fails before composition begins: it is never
\* rendered and never answered with a success. The runs in which the renderer
\* itself raises are left aside.
C6_UnknownJustifyIsRejected ==
    (Responded("generate") /\ request.body.wellformed
        /\ request.body.text # ""
        /\ request.body.font \in Range(catalog)
        /\ request.body.width # None
        /\ request.body.width[1] >= 1
        /\ request.body.justify \notin Modes
        /\ trace.raised # "FigletError")
    => /\ ~trace.render_called
       /\ response.status # 200

\* C7: justify_text keeps the number and order of the rows, and in each of the
\* modes left, center and right a row longer than width is returned unchanged.
C7_WidthPassThrough ==
    (jpc # "input" /\ jalign \in Modes)
    => /\ RowCount(jout) = RowCount(jtext)
       /\ \A k \in 1..RowCount(jtext) :
            Len(RowAt(jtext, k)) > jwidth => RowAt(jout, k) = RowAt(jtext, k)

C7_Witness ==
    /\ jpc = "once"
    /\ jalign = "left"
    /\ RowCount(jtext) = 2
    /\ Len(RowAt(jtext, 1)) > jwidth
    /\ Len(RowAt(jtext, 2)) < jwidth
    /\ jwidth >= 1
    /\ jout # jtext

\* C8: justifying an already justified block again with the same width and
\* mode returns it unchanged.
C8_JustifyIdempotent ==
    (jpc = "twice" /\ jalign \in Modes) => jout2 = jout

C8_Witness ==
    /\ jpc = "twice"
    /\ jalign = "right"
    /\ RowCount(jtext) = 2
    /\ jout # jtext
    /\ jout2 = jout

\* C9 as stated: a row of length n <= width justified with center has length
\* width, contains the row unchanged, and the padding is biased to the right:
\* left <= right and right - left <= 1.
C9_CenterRightBiased ==
    (jpc # "input" /\ jalign = "center")
    => \A k \in 1..RowCount(jtext) :
         LET in == RowAt(jtext, k)
             out == RowAt(jout, k)
             marg == jwidth - Len(in)
         IN  Len(in) <= jwidth
             => /\ Len(out) = jwidth
                /\ \E l \in 0..marg :
                      /\ PaddedBy(out, in, l, jwidth)
                      /\ l <= marg - l
                      /\ (marg - l) - l <= 1

\* C9 as amended: a row of length n <= width justified with center has length
\* width, contains the row unchanged, and left and right padding differ by at
\* most one; when width - n is odd the odd cell goes to the right if width is
\* even and to the left if width is odd.
C9_CenterBiasFollowsWidthParity ==
    (jpc # "input" /\ jalign = "center")
    => \A k \in 1..RowCount(jtext) :
         LET in == RowAt(jtext, k)
             out == RowAt(jout, k)
             marg == jwidth - Len(in)
         IN  Len(in) <= jwidth
             => /\ Len(out) = jwidth
                /\ \E l \in 0..marg :
                      /\ PaddedBy(out, in, l, jwidth)
                      /\ IF marg % 2 = 0 THEN l = marg - l
                         ELSE IF jwidth % 2 = 0 THEN marg - l = l + 1
                         ELSE l = (marg - l) + 1

C9_Witness ==
    /\ jpc = "once"
    /\ jalign = "center"
    /\ jtext = <<"#", "#">>
    /\ jwidth = 3
    /\ jout = <<SP, "#", "#">>

\* C10: in every response of random_art, font_used is the font the returned
\* ascii_art was rendered with.
C10_FontUsedIsFontRendered ==
    (Responded("random") /\ response.status = 200)
    => response.font_used = trace.render_font

====
